---- MODULE Spec2Model ----
(***************************************************************************)
(* InletPara calculator (src/inlet.py): the Streamlit session's inlet list *)
(* (resize, widget edits, batch calculation) and calculate_parameters.     *)
(*                                                                         *)
(* Python floats are modelled bit for bit as IEEE-754 binary64 values: a   *)
(* sign, a significand of at most 53 bits held as a natural number of any  *)
(* size, and an exponent from -1074 to 971; every product, quotient, sum   *)
(* and difference is the exact result rounded to the nearest float, ties   *)
(* to even, with subnormal results, signed zeros, inf and nan as the       *)
(* hardware produces them, and x / 0 raises ZeroDivisionError.             *)
(*                                                                         *)
(* x ** y follows float_pow of CPython and, where float_pow calls it, pow  *)
(* of the C library the interpreter runs on (glibc 2.36 on x86-64 with     *)
(* fused multiply-add): ln x from a table of 128 intervals and a           *)
(* polynomial, kept as the sum of two floats, then exp of y * ln x from a  *)
(* table of the powers 2^(j/128) and a polynomial.  Every step is the      *)
(* float operation the library performs, in its order, so that the power   *)
(* agrees with the interpreter's in every bit.                             *)
(***************************************************************************)
EXTENDS Integers, Sequences, FiniteSets

\* ------------------------------------------------------------ integers

Abs(x) == IF x < 0 THEN -x ELSE x

Min(a, b) == IF a < b THEN a ELSE b

Max(a, b) == IF a < b THEN b ELSE a

\* floor(log2(m)) for m > 0
RECURSIVE Log2(_)
Log2(m) == IF m < 2 THEN 0 ELSE 1 + Log2(m \div 2)

\* a result outside the floats (the complex power of a negative base, a
\* quotient whose divisor PyDiv has not tested): evaluating it is an error
Unsupported(x) == CHOOSE v \in {} : v = x

\* ------------------------------------------- natural numbers of any size

\* a natural number is the sequence of its digits in base 2^15, the lowest
\* first and the highest not 0; <<>> is 0
Base == 2 ^ 15

RECURSIVE BInt(_)
BInt(n) == IF n = 0 THEN <<>> ELSE <<n % Base>> \o BInt(n \div Base)

RECURSIVE BToInt(_)
BToInt(a) == IF a = <<>> THEN 0 ELSE a[1] + Base * BToInt(Tail(a))

BLimb(a, i) == IF i <= Len(a) THEN a[i] ELSE 0

RECURSIVE BTrim(_)
BTrim(a) ==
    IF a = <<>> \/ a[Len(a)] # 0 THEN a ELSE BTrim(SubSeq(a, 1, Len(a) - 1))

\* the loops below carry their state in a record: the digits d produced so
\* far, lowest first, and the carry c into the next one

\* the state after the digit of the column sum v
BCarry(st, v) == [d |-> Append(st.d, v % Base), c |-> v \div Base]

BCarried(st) == IF st.c = 0 THEN st.d ELSE Append(st.d, st.c)

RECURSIVE BAddLoop(_, _, _)
BAddLoop(a, b, st) ==
    IF Len(st.d) >= Len(a) /\ Len(st.d) >= Len(b) THEN BCarried(st)
    ELSE BAddLoop(a, b, BCarry(st, BLimb(a, Len(st.d) + 1)
                                   + BLimb(b, Len(st.d) + 1) + st.c))

\* a + b
BAdd(a, b) ==
    IF a = <<>> THEN b
    ELSE IF b = <<>> THEN a
    ELSE BAddLoop(a, b, [d |-> <<>>, c |-> 0])

\* the state after the digit of the column difference v: c is the borrow
BBorrow(st, v) ==
    [d |-> Append(st.d, (v + Base) % Base), c |-> IF v < 0 THEN 1 ELSE 0]

RECURSIVE BSubLoop(_, _, _)
BSubLoop(a, b, st) ==
    IF Len(st.d) >= Len(a) THEN st.d
    ELSE BSubLoop(a, b, BBorrow(st, a[Len(st.d) + 1]
                                    - BLimb(b, Len(st.d) + 1) - st.c))

\* a - b for a >= b
BSub(a, b) ==
    IF b = <<>> THEN a ELSE BTrim(BSubLoop(a, b, [d |-> <<>>, c |-> 0]))

\* -1, 0, 1 as a < b, a = b, a > b, from digit i down
RECURSIVE BCmpFrom(_, _, _)
BCmpFrom(a, b, i) ==
    IF i = 0 THEN 0
    ELSE IF a[i] # b[i] THEN (IF a[i] < b[i] THEN -1 ELSE 1)
    ELSE BCmpFrom(a, b, i - 1)

BCmp(a, b) ==
    IF Len(a) # Len(b) THEN (IF Len(a) < Len(b) THEN -1 ELSE 1)
    ELSE BCmpFrom(a, b, Len(a))

RECURSIVE BScaleLoop(_, _, _)
BScaleLoop(a, k, st) ==
    IF Len(st.d) >= Len(a) THEN BCarried(st)
    ELSE BScaleLoop(a, k, BCarry(st, a[Len(st.d) + 1] * k + st.c))

\* a * k for 0 <= k <= Base
BScale(a, k) ==
    IF k = 0 \/ a = <<>> THEN <<>> ELSE BScaleLoop(a, k, [d |-> <<>>, c |-> 0])

\* a * Base^n and a \div Base^n
BUp(a, n) == IF a = <<>> THEN a ELSE [i \in 1 .. n |-> 0] \o a

BDown(a, n) == SubSeq(a, n + 1, Len(a))

\* a * b: acc is a times the digits of b above digit j
RECURSIVE BMulLoop(_, _, _)
BMulLoop(a, b, st) ==
    IF st.j = 0 THEN st.acc
    ELSE BMulLoop(a, b, [j |-> st.j - 1,
                         acc |-> BAdd(BUp(st.acc, 1), BScale(a, b[st.j]))])

BMul(a, b) ==
    IF a = <<>> \/ b = <<>> THEN <<>>
    ELSE BMulLoop(a, b, [j |-> Len(b), acc |-> <<>>])

\* the state after the digit of v = r * Base + (the next digit of a)
BShort(st, v, k) == [d |-> <<v \div k>> \o st.d, c |-> v % k]

RECURSIVE BQuotLoop(_, _, _)
BQuotLoop(a, k, st) ==
    IF Len(st.d) >= Len(a) THEN st.d
    ELSE BQuotLoop(a, k, BShort(st, st.c * Base + a[Len(a) - Len(st.d)], k))

\* a \div k for 0 < k <= Base
BQuot(a, k) ==
    IF k = 1 THEN a ELSE BTrim(BQuotLoop(a, k, [d |-> <<>>, c |-> 0]))

\* a * 2^n and a \div 2^n
BShl(a, n) == BUp(BScale(a, 2 ^ (n % 15)), n \div 15)

BShr(a, n) == BQuot(BDown(a, n \div 15), 2 ^ (n % 15))

\* a % 2^n
BLow(a, n) ==
    BTrim([i \in 1 .. Min(Len(a), (n \div 15) + 1) |->
              IF i <= n \div 15 THEN a[i] ELSE a[i] % (2 ^ (n % 15))])

\* the number of bits of a
BBits(a) == IF a = <<>> THEN 0 ELSE 15 * (Len(a) - 1) + Log2(a[Len(a)]) + 1

BOdd(a) == a # <<>> /\ a[1] % 2 = 1

\* [q, r]: the digit q raised while d still fits the remainder r
RECURSIVE BDigitUp(_, _, _)
BDigitUp(r, d, q) ==
    IF BCmp(r, d) < 0 THEN [q |-> q, r |-> r] ELSE BDigitUp(BSub(r, d), d, q + 1)

\* a digit not above r \div d, for r < d * Base and d[Len(d)] >= 2^14
BEstimate(r, d) ==
    IF Len(r) < Len(d) THEN 0
    ELSE IF Len(r) = Len(d) THEN r[Len(r)] \div (d[Len(d)] + 1)
    ELSE (r[Len(r)] * Base + r[Len(r) - 1]) \div (d[Len(d)] + 1)

BDigitBy(r, d, q) == BDigitUp(BSub(r, BScale(d, q)), d, q)

\* [q |-> r \div d, r |-> r % d] for r < d * Base
BDigit(r, d) == BDigitBy(r, d, BEstimate(r, d))

\* r * Base + l
BPush(r, l) == IF r = <<>> THEN (IF l = 0 THEN <<>> ELSE <<l>>) ELSE <<l>> \o r

\* long division: st is the quotient q and the remainder r of the digits of
\* n above those still to come
BDivJoin(st, dg) == [q |-> <<dg.q>> \o st.q, r |-> dg.r]

RECURSIVE BDivLoop(_, _, _)
BDivLoop(n, d, st) ==
    IF Len(st.q) >= Len(n) THEN st
    ELSE BDivLoop(n, d, BDivJoin(st, BDigit(BPush(st.r, n[Len(n) - Len(st.q)]), d)))

BDivTrim(st) == [q |-> BTrim(st.q), r |-> st.r]

\* [q |-> n \div d, r |-> n % d] for d[Len(d)] >= 2^14
BDivMod(n, d) == BDivTrim(BDivLoop(n, d, [q |-> <<>>, r |-> <<>>]))

\* ------------------------------------------------------------ floats

\* a Python float (IEEE-754 binary64): nan, s * inf, or the finite value
\* s * m * 2^e with the sign s of 1 or -1 and either 2^52 <= m < 2^53 and
\* -1074 <= e <= 971 (normal) or m < 2^52 and e = -1074 (subnormal, 0)
Inf(s) == [k |-> "inf", s |-> s, m |-> <<>>, e |-> 0]

NaN == [k |-> "nan", s |-> 1, m |-> <<>>, e |-> 0]

SignedZero(s) == [k |-> "fin", s |-> s, m |-> <<>>, e |-> -1074]

Zero == SignedZero(1)

\* the float of a mantissa m below 2^53 at exponent e >= -1074: inf beyond
\* the largest float
Finite(s, m, e) ==
    IF m = <<>> THEN SignedZero(s)
    ELSE IF e > 971 THEN Inf(s)
    ELSE [k |-> "fin", s |-> s, m |-> m, e |-> e]

\* the same for m <= 2^53
Carry(s, m, e) ==
    IF BBits(m) = 54 THEN Finite(s, BShr(m, 1), e + 1) ELSE Finite(s, m, e)

\* 2^(q - 1): half a unit of the last bit kept when q bits are dropped
Half(q) == BShl(<<1>>, q - 1)

\* round to nearest, ties to even: the bits dropped are above half a unit,
\* or half a unit with more below them (sticky) or with hi odd
RoundUp(hi, low, q, sticky) ==
    BCmp(low, Half(q)) > 0 \/ (BCmp(low, Half(q)) = 0 /\ (sticky \/ BOdd(hi)))

Rounded(s, hi, up, e) == Carry(s, IF up THEN BAdd(hi, <<1>>) ELSE hi, e)

Dropped(s, hi, low, e, q, sticky) == Rounded(s, hi, RoundUp(hi, low, q, sticky), e)

\* the number of low bits of n * 2^e that a float does not hold
DroppedBits(n, e) == Max(BBits(n) - 53, (-1074) - e)

PackBy(s, n, e, sticky, q) ==
    IF q <= 0 THEN Finite(s, BShl(n, -q), e + q)
    ELSE Dropped(s, BShr(n, q), BLow(n, q), e + q, q, sticky)

\* the float nearest to s * (n * 2^e + t), 0 <= t < 2^e, t > 0 iff sticky:
\* the rounding of every arithmetic result
Pack(s, n, e, sticky) ==
    IF n = <<>> THEN SignedZero(s) ELSE PackBy(s, n, e, sticky, DroppedBits(n, e))

\* the float of the integer n
Flt(n) == Pack(IF n < 0 THEN -1 ELSE 1, BInt(Abs(n)), 0, FALSE)

One == Flt(1)

Two == Flt(2)

Hundred == Flt(100)

\* the float 2^e
TwoTo(e) == Pack(1, <<1>>, e, FALSE)

\* the largest float
Largest == Pack(1, BSub(BShl(<<1>>, 53), <<1>>), 971, FALSE)

\* the float n * 2^-1074: the n-th float above 0
Tiny(n) == Pack(1, BInt(n), -1074, FALSE)

IsFinite(x) == x.k = "fin"

\* x == 0 (0.0 and -0.0)
IsZero(x) == x.k = "fin" /\ x.m = <<>>

\* -x
Neg(x) == IF x.k = "nan" THEN x ELSE [x EXCEPT !.s = -x.s]

\* the sign of a value: -1, 0, 1 (0 for nan)
Sign(x) == IF x.k = "nan" \/ IsZero(x) THEN 0 ELSE x.s

\* ----------------------------------------------------- float arithmetic

\* x * y
Mul(x, y) ==
    IF x.k = "nan" \/ y.k = "nan" THEN NaN
    ELSE IF x.k = "inf" \/ y.k = "inf"
    THEN IF IsZero(x) \/ IsZero(y) THEN NaN ELSE Inf(x.s * y.s)
    ELSE Pack(x.s * y.s, BMul(x.m, y.m), x.e + y.e, FALSE)

\* s1 * a * 2^e + s2 * b * 2^e
AddAligned(s1, a, s2, b, e) ==
    IF s1 = s2 THEN Pack(s1, BAdd(a, b), e, FALSE)
    ELSE IF BCmp(a, b) = 0 THEN Zero
    ELSE IF BCmp(a, b) > 0 THEN Pack(s1, BSub(a, b), e, FALSE)
    ELSE Pack(s2, BSub(b, a), e, FALSE)

\* x + y: a term 2^67 times smaller than the other is below half a unit of
\* its last bit
Add(x, y) ==
    IF x.k = "nan" \/ y.k = "nan" THEN NaN
    ELSE IF x.k = "inf" /\ y.k = "inf"
    THEN IF x.s = y.s THEN x ELSE NaN
    ELSE IF x.k = "inf" THEN x
    ELSE IF y.k = "inf" THEN y
    ELSE IF IsZero(x)
    THEN IF IsZero(y) THEN SignedZero(IF x.s = -1 /\ y.s = -1 THEN -1 ELSE 1)
         ELSE y
    ELSE IF IsZero(y) THEN x
    ELSE IF x.e - y.e > 120 THEN x
    ELSE IF y.e - x.e > 120 THEN y
    ELSE AddAligned(x.s, BShl(x.m, x.e - Min(x.e, y.e)),
                    y.s, BShl(y.m, y.e - Min(x.e, y.e)), Min(x.e, y.e))

\* x - y
Sub(x, y) == Add(x, Neg(y))

\* Pack of the quotient qr = [q, r] of two mantissas
DivPack(s, qr, e) == Pack(s, qr.q, e, qr.r # <<>>)

\* the quotient of a * 2^ea by b * 2^eb for a and b of 60 bits
DivNorm(s, a, ea, b, eb) == DivPack(s, BDivMod(BUp(a, 4), b), ea - eb - 60)

\* x / y for y != 0
Div(x, y) ==
    IF IsZero(y) THEN Unsupported(y)
    ELSE IF x.k = "nan" \/ y.k = "nan" THEN NaN
    ELSE IF x.k = "inf"
    THEN IF y.k = "inf" THEN NaN ELSE Inf(x.s * y.s)
    ELSE IF y.k = "inf" \/ IsZero(x) THEN SignedZero(x.s * y.s)
    ELSE DivNorm(x.s * y.s,
                 BShl(x.m, 60 - BBits(x.m)), x.e - (60 - BBits(x.m)),
                 BShl(y.m, 60 - BBits(y.m)), y.e - (60 - BBits(y.m)))

\* the float of the decimal literal n / d
Dec(n, d) == Div(Flt(n), Flt(d))

\* -1, 0, 1 as |x| < |y|, |x| = |y|, |x| > |y|, for x and y not nan
MagCmp(x, y) ==
    IF x.k = "inf" THEN (IF y.k = "inf" THEN 0 ELSE 1)
    ELSE IF y.k = "inf" THEN -1
    ELSE IF x.e # y.e THEN (IF x.e < y.e THEN -1 ELSE 1)
    ELSE BCmp(x.m, y.m)

\* -1, 0, 1 as x < y, x == y, x > y, for x and y not nan
Cmp(x, y) ==
    IF IsZero(x) /\ IsZero(y) THEN 0
    ELSE IF x.s # y.s THEN x.s
    ELSE x.s * MagCmp(x, y)

\* x > y, x <= y and x == y (every comparison with nan is false)
Gt(x, y) == x.k # "nan" /\ y.k # "nan" /\ Cmp(x, y) > 0

Le(x, y) == x.k # "nan" /\ y.k # "nan" /\ Cmp(x, y) <= 0

Eq(x, y) == x.k # "nan" /\ y.k # "nan" /\ Cmp(x, y) = 0

\* ---------------------------------------------------------------- power

\* the outcome of a statement: the value it leaves, or the exception it raises
Ok(v) == [exc |-> "none", v |-> v]

Raise(e) == [exc |-> e, v |-> Zero]

Raised(r) == r.exc # "none"

\* s * n * 2^e plus a term of the sign t too small to reach the bits of n
FarSum(s, n, e, t) ==
    IF s = t THEN Pack(s, BShl(n, 60), e - 60, TRUE)
    ELSE Pack(s, BSub(BShl(n, 60), <<1>>), e - 60, TRUE)

\* s1 * a * 2^e1 + s2 * b * 2^e2 for a and b of at most 110 bits
Sum(s1, a, e1, s2, b, e2) ==
    IF e1 - e2 > 250 THEN FarSum(s1, a, e1, s2)
    ELSE IF e2 - e1 > 250 THEN FarSum(s2, b, e2, s1)
    ELSE AddAligned(s1, BShl(a, e1 - Min(e1, e2)),
                    s2, BShl(b, e2 - Min(e1, e2)), Min(e1, e2))

\* x * y + z rounded once (the fused multiply-add instruction)
Fma(x, y, z) ==
    IF ~(IsFinite(x) /\ IsFinite(y) /\ IsFinite(z)) \/ IsZero(x) \/ IsZero(y)
    THEN Add(Mul(x, y), z)
    ELSE IF IsZero(z) THEN Mul(x, y)
    ELSE Sum(x.s * y.s, BMul(x.m, y.m), x.e + y.e, z.s, z.m, z.e)

\* |x|
Fabs(x) == IF x.k = "nan" THEN x ELSE [x EXCEPT !.s = 1]

\* the exponent of the highest bit of x != 0, and the 53 bits from it down
TopExp(x) == x.e + BBits(x.m) - 1

Mant(x) == BShl(x.m, 53 - BBits(x.m))

\* the float m * 2^e for a mantissa m of 53 bits
Man(m, e) == [k |-> "fin", s |-> 1, m |-> m, e |-> e]

\* y is an integer; y is an odd integer (finite y)
IsInteger(y) == IsZero(y) \/ y.e >= 0 \/ BLow(y.m, -y.e) = <<>>

IsOddInteger(y) == IsInteger(y) /\ y.e <= 0 /\ BOdd(BShr(y.m, -y.e))

\* the float s * (hi * 2^26 + lo) * 2^e: the constants of the C library
Double(s, hi, lo, e) == Pack(s, BAdd(BShl(BInt(hi), 26), BInt(lo)), e, FALSE)

MinusOne == Neg(One)

\* the float of the entry <<s, hi, lo, e>> of a table
Entry(t) == Double(t[1], t[2], t[3], t[4])

\* ln 2 in two parts
Ln2hi == Double(1, 93032639, 49952768, -53)

Ln2lo == Double(1, 129816036, 63399728, -97)

\* the coefficients of the polynomial of log_inline
A0 == Double(-1, 67108864, 0, -53)

A1 == Double(-1, 89478485, 22369632, -53)

A2 == Double(1, 67108864, 6, -53)

A3 == Double(1, 107374182, 22631758, -53)

A4 == Double(-1, 89478485, 19506298, -53)

A5 == Double(-1, 76699366, 55068137, -52)

A6 == Double(1, 67111650, 52838339, -52)

\* the table of log_inline: the floats <<1 / c, ln c in two parts>> for the 128 values c
\* near the centres of the intervals that divide [0x1.69555p-1, 0x1.69555p0)
PowLogTab == <<
    <<<<1, 94896128, 0, -52>>, <<-1, 93003964, 45729792, -54>>,
      <<1, 112003338, 3626624, -100>>>>,
    <<<<1, 94371840, 0, -52>>, <<-1, 91516783, 56100864, -54>>,
      <<-1, 120144438, 14743328, -98>>>>,
    <<<<1, 93847552, 0, -52>>, <<-1, 90021317, 54876160, -54>>,
      <<-1, 81307957, 28725357, -97>>>>,
    <<<<1, 93323264, 0, -52>>, <<-1, 88517473, 53344256, -54>>,
      <<-1, 94452007, 45115349, -101>>>>,
    <<<<1, 92798976, 0, -52>>, <<-1, 87005157, 24606720, -54>>,
      <<-1, 84335204, 53034720, -99>>>>,
    <<<<1, 92274688, 0, -52>>, <<-1, 85484272, 35414016, -54>>,
      <<1, 83233746, 5014732, -98>>>>,
    <<<<1, 91750400, 0, -52>>, <<-1, 83954721, 42379264, -54>>,
      <<1, 118537467, 25299770, -102>>>>,
    <<<<1, 91226112, 0, -52>>, <<-1, 82416405, 23676928, -54>>,
      <<1, 70021537, 38900832, -97>>>>,
    <<<<1, 90701824, 0, -52>>, <<-1, 80869222, 43548672, -54>>,
      <<1, 89543541, 12943506, -97>>>>,
    <<<<1, 90177536, 0, -52>>, <<-1, 79313070, 48308224, -54>>,
      <<1, 94291878, 28781528, -97>>>>,
    <<<<1, 89653248, 0, -52>>, <<-1, 77747844, 64915456, -54>>,
      <<1, 91391277, 47165503, -98>>>>,
    <<<<1, 89653248, 0, -52>>, <<-1, 77747844, 64915456, -54>>,
      <<1, 91391277, 47165503, -98>>>>,
    <<<<1, 89128960, 0, -52>>, <<-1, 76173438, 63928320, -54>>,
      <<-1, 93751562, 5495414, -98>>>>,
    <<<<1, 88604672, 0, -52>>, <<-1, 74589744, 23697408, -54>>,
      <<-1, 132902682, 15160324, -98>>>>,
    <<<<1, 88080384, 0, -52>>, <<-1, 72996650, 61581312, -54>>,
      <<1, 130544012, 58894576, -98>>>>,
    <<<<1, 87556096, 0, -52>>, <<-1, 71394046, 28198912, -54>>,
      <<-1, 95039807, 17128038, -97>>>>,
    <<<<1, 87031808, 0, -52>>, <<-1, 69781816, 41127936, -54>>,
      <<-1, 119208863, 49545998, -99>>>>,
    <<<<1, 86507520, 0, -52>>, <<-1, 68159845, 11849728, -54>>,
      <<-1, 68005415, 49556863, -100>>>>,
    <<<<1, 86507520, 0, -52>>, <<-1, 68159845, 11849728, -54>>,
      <<-1, 68005415, 49556863, -100>>>>,
    <<<<1, 85983232, 0, -52>>, <<-1, 133056027, 22953984, -55>>,
      <<1, 123062954, 60374151, -99>>>>,
    <<<<1, 85458944, 0, -52>>, <<-1, 129772402, 64774144, -55>>,
      <<1, 113880551, 8826660, -97>>>>,
    <<<<1, 84934656, 0, -52>>, <<-1, 126468571, 36368384, -55>>,
      <<-1, 97244117, 4194064, -98>>>>,
    <<<<1, 84410368, 0, -52>>, <<-1, 123144282, 55558144, -55>>,
      <<1, 74359918, 63596571, -97>>>>,
    <<<<1, 83886080, 0, -52>>, <<-1, 119799281, 60465152, -55>>,
      <<1, 98456538, 10454068, -97>>>>,
    <<<<1, 83886080, 0, -52>>, <<-1, 119799281, 60465152, -55>>,
      <<1, 98456538, 10454068, -97>>>>,
    <<<<1, 83361792, 0, -52>>, <<-1, 116433309, 2985984, -55>>,
      <<1, 106146828, 25933711, -98>>>>,
    <<<<1, 82837504, 0, -52>>, <<-1, 113046099, 41992192, -55>>,
      <<1, 110336207, 63803494, -104>>>>,
    <<<<1, 82313216, 0, -52>>, <<-1, 109637383, 65187840, -55>>,
      <<-1, 90380599, 4637162, -97>>>>,
    <<<<1, 82313216, 0, -52>>, <<-1, 109637383, 65187840, -55>>,
      <<-1, 90380599, 4637162, -97>>>>,
    <<<<1, 81788928, 0, -52>>, <<-1, 106206887, 16011264, -55>>,
      <<-1, 112490049, 12702947, -97>>>>,
    <<<<1, 81264640, 0, -52>>, <<-1, 102754329, 18927616, -55>>,
      <<1, 116355039, 64748041, -97>>>>,
    <<<<1, 80740352, 0, -52>>, <<-1, 99279424, 34660352, -55>>,
      <<1, 116843548, 39012952, -97>>>>,
    <<<<1, 80740352, 0, -52>>, <<-1, 99279424, 34660352, -55>>,
      <<1, 116843548, 39012952, -97>>>>,
    <<<<1, 80216064, 0, -52>>, <<-1, 95781881, 52023296, -55>>,
      <<-1, 70851240, 62055014, -98>>>>,
    <<<<1, 79691776, 0, -52>>, <<-1, 92261404, 10981376, -55>>,
      <<-1, 128422119, 51400761, -98>>>>,
    <<<<1, 79691776, 0, -52>>, <<-1, 92261404, 10981376, -55>>,
      <<-1, 128422119, 51400761, -98>>>>,
    <<<<1, 79167488, 0, -52>>, <<-1, 88717688, 60928000, -55>>,
      <<-1, 70755044, 482191, -97>>>>,
    <<<<1, 78643200, 0, -52>>, <<-1, 85150427, 13336576, -55>>,
      <<1, 96677976, 20281404, -98>>>>,
    <<<<1, 78643200, 0, -52>>, <<-1, 85150427, 13336576, -55>>,
      <<1, 96677976, 20281404, -98>>>>,
    <<<<1, 78118912, 0, -52>>, <<-1, 81559304, 2002944, -55>>,
      <<1, 73277843, 19354682, -100>>>>,
    <<<<1, 77594624, 0, -52>>, <<-1, 77943998, 2093056, -55>>,
      <<-1, 86199301, 57787400, -97>>>>,
    <<<<1, 77070336, 0, -52>>, <<-1, 74304181, 19881984, -55>>,
      <<-1, 127936774, 1155990, -97>>>>,
    <<<<1, 77070336, 0, -52>>, <<-1, 74304181, 19881984, -55>>,
      <<-1, 127936774, 1155990, -97>>>>,
    <<<<1, 76546048, 0, -52>>, <<-1, 70639519, 13668352, -55>>,
      <<1, 110781858, 15227892, -99>>>>,
    <<<<1, 76546048, 0, -52>>, <<-1, 70639519, 13668352, -55>>,
      <<1, 110781858, 15227892, -99>>>>,
    <<<<1, 76021760, 0, -52>>, <<-1, 133899340, 31186944, -56>>,
      <<-1, 90002711, 10695666, -97>>>>,
    <<<<1, 75497472, 0, -52>>, <<-1, 126468571, 36372480, -56>>,
      <<1, 109906698, 49283132, -97>>>>,
    <<<<1, 75497472, 0, -52>>, <<-1, 126468571, 36372480, -56>>,
      <<1, 109906698, 49283132, -97>>>>,
    <<<<1, 74973184, 0, -52>>, <<-1, 118986019, 56344576, -56>>,
      <<-1, 121837014, 6274566, -98>>>>,
    <<<<1, 74448896, 0, -52>>, <<-1, 111450958, 38461440, -56>>,
      <<1, 89017722, 6007496, -97>>>>,
    <<<<1, 74448896, 0, -52>>, <<-1, 111450958, 38461440, -56>>,
      <<1, 89017722, 6007496, -97>>>>,
    <<<<1, 73924608, 0, -52>>, <<-1, 103862645, 36806656, -56>>,
      <<1, 81726035, 19879528, -98>>>>,
    <<<<1, 73924608, 0, -52>>, <<-1, 103862645, 36806656, -56>>,
      <<1, 81726035, 19879528, -98>>>>,
    <<<<1, 73400320, 0, -52>>, <<-1, 96220322, 48586752, -56>>,
      <<-1, 94752242, 20149210, -97>>>>,
    <<<<1, 72876032, 0, -52>>, <<-1, 88523215, 50733056, -56>>,
      <<1, 130062040, 29777495, -98>>>>,
    <<<<1, 72876032, 0, -52>>, <<-1, 88523215, 50733056, -56>>,
      <<1, 130062040, 29777495, -98>>>>,
    <<<<1, 72351744, 0, -52>>, <<-1, 80770533, 35381248, -56>>,
      <<1, 118994611, 16323551, -97>>>>,
    <<<<1, 72351744, 0, -52>>, <<-1, 80770533, 35381248, -56>>,
      <<1, 118994611, 16323551, -97>>>>,
    <<<<1, 71827456, 0, -52>>, <<-1, 72961467, 44269568, -56>>,
      <<1, 85923741, 42967817, -98>>>>,
    <<<<1, 71303168, 0, -52>>, <<-1, 130190384, 1146880, -57>>,
      <<1, 123103136, 53907089, -97>>>>,
    <<<<1, 71303168, 0, -52>>, <<-1, 130190384, 1146880, -57>>,
      <<1, 123103136, 53907089, -97>>>>,
    <<<<1, 70778880, 0, -52>>, <<-1, 114341724, 18448384, -57>>,
      <<1, 119578297, 30830668, -98>>>>,
    <<<<1, 70778880, 0, -52>>, <<-1, 114341724, 18448384, -57>>,
      <<1, 119578297, 30830668, -98>>>>,
    <<<<1, 70254592, 0, -52>>, <<-1, 98375229, 36880384, -57>>,
      <<-1, 121573773, 15901166, -97>>>>,
    <<<<1, 70254592, 0, -52>>, <<-1, 98375229, 36880384, -57>>,
      <<-1, 121573773, 15901166, -97>>>>,
    <<<<1, 69730304, 0, -52>>, <<-1, 82289134, 33472512, -57>>,
      <<1, 88124925, 19332778, -100>>>>,
    <<<<1, 69730304, 0, -52>>, <<-1, 82289134, 33472512, -57>>,
      <<1, 88124925, 19332778, -100>>>>,
    <<<<1, 69206016, 0, -52>>, <<-1, 132163267, 41418752, -58>>,
      <<-1, 106957215, 8260068, -97>>>>,
    <<<<1, 69206016, 0, -52>>, <<-1, 132163267, 41418752, -58>>,
      <<-1, 106957215, 8260068, -97>>>>,
    <<<<1, 68681728, 0, -52>>, <<-1, 99501761, 64323584, -58>>,
      <<-1, 102978852, 66758201, -97>>>>,
    <<<<1, 68157440, 0, -52>>, <<-1, 133179948, 16515072, -59>>,
      <<-1, 130522941, 47425180, -102>>>>,
    <<<<1, 68157440, 0, -52>>, <<-1, 133179948, 16515072, -59>>,
      <<-1, 130522941, 47425180, -102>>>>,
    <<<<1, 67633152, 0, -52>>, <<-1, 133696154, 51380224, -60>>,
      <<-1, 108564419, 31080676, -98>>>>,
    <<<<1, 67633152, 0, -52>>, <<-1, 133696154, 51380224, -60>>,
      <<-1, 108564419, 31080676, -98>>>>,
    <<<<1, 67108864, 0, -52>>, <<1, 0, 0, 0>>,
      <<1, 0, 0, 0>>>>,
    <<<<1, 67108864, 0, -52>>, <<1, 0, 0, 0>>,
      <<1, 0, 0, 0>>>>,
    <<<<1, 133169152, 0, -53>>, <<1, 67372381, 25755648, -59>>,
      <<-1, 70376166, 27077608, -98>>>>,
    <<<<1, 132120576, 0, -53>>, <<1, 67638678, 9666560, -58>>,
      <<-1, 83302081, 48429010, -97>>>>,
    <<<<1, 131072000, 0, -53>>, <<1, 101861706, 13172736, -58>>,
      <<-1, 111685260, 39455796, -97>>>>,
    <<<<1, 130023424, 0, -53>>, <<1, 68179810, 31932416, -57>>,
      <<1, 71594007, 15849299, -99>>>>,
    <<<<1, 128974848, 0, -53>>, <<1, 85568437, 3014656, -57>>,
      <<-1, 117808349, 29228328, -97>>>>,
    <<<<1, 127926272, 0, -53>>, <<1, 103099013, 10469376, -57>>,
      <<-1, 106849652, 5908093, -98>>>>,
    <<<<1, 126877696, 0, -53>>, <<1, 120773875, 31309824, -57>>,
      <<-1, 110771345, 64497671, -98>>>>,
    <<<<1, 126353408, 0, -53>>, <<1, 129666160, 442368, -57>>,
      <<-1, 126111635, 63519611, -99>>>>,
    <<<<1, 125304832, 0, -53>>, <<1, 73780980, 21389312, -56>>,
      <<-1, 88905557, 34447003, -97>>>>,
    <<<<1, 124256256, 0, -53>>, <<1, 82804073, 64086016, -56>>,
      <<1, 120723369, 31149783, -97>>>>,
    <<<<1, 123207680, 0, -53>>, <<1, 91903635, 26714112, -56>>,
      <<-1, 119161231, 6102302, -97>>>>,
    <<<<1, 122683392, 0, -53>>, <<1, 96482498, 48939008, -56>>,
      <<1, 117941098, 27127090, -101>>>>,
    <<<<1, 121634816, 0, -53>>, <<1, 105699223, 22626304, -56>>,
      <<1, 79976206, 45959130, -97>>>>,
    <<<<1, 120586240, 0, -53>>, <<1, 114995747, 28139520, -56>>,
      <<-1, 82059274, 66545893, -98>>>>,
    <<<<1, 120061952, 0, -53>>, <<1, 119674368, 29114368, -56>>,
      <<1, 93434993, 39496915, -97>>>>,
    <<<<1, 119013376, 0, -53>>, <<1, 129093216, 50995200, -56>>,
      <<-1, 124787243, 65422816, -97>>>>,
    <<<<1, 118489088, 0, -53>>, <<1, 133833806, 31186944, -56>>,
      <<-1, 88946067, 60885757, -97>>>>,
    <<<<1, 117440512, 0, -53>>, <<1, 71689120, 36167680, -55>>,
      <<1, 75226675, 36505586, -97>>>>,
    <<<<1, 116916224, 0, -53>>, <<1, 74091231, 35909632, -55>>,
      <<1, 120185745, 3709236, -97>>>>,
    <<<<1, 115867648, 0, -53>>, <<1, 78927939, 8814592, -55>>,
      <<1, 82271026, 58832033, -99>>>>,
    <<<<1, 115343360, 0, -53>>, <<1, 81362732, 1413120, -55>>,
      <<1, 93055496, 55276169, -103>>>>,
    <<<<1, 114294784, 0, -53>>, <<1, 86265696, 53719040, -55>>,
      <<1, 90234453, 16627320, -97>>>>,
    <<<<1, 113770496, 0, -53>>, <<1, 88734073, 10596352, -55>>,
      <<1, 93125177, 23690695, -97>>>>,
    <<<<1, 112721920, 0, -53>>, <<1, 93705135, 42733568, -55>>,
      <<1, 108257995, 3944056, -98>>>>,
    <<<<1, 112197632, 0, -53>>, <<1, 96208034, 58028032, -55>>,
      <<-1, 88367993, 27009505, -97>>>>,
    <<<<1, 111673344, 0, -53>>, <<1, 98722657, 21254144, -55>>,
      <<-1, 119112732, 9519877, -98>>>>,
    <<<<1, 110624768, 0, -53>>, <<1, 103787514, 54067200, -55>>,
      <<-1, 97473834, 48835793, -99>>>>,
    <<<<1, 110100480, 0, -53>>, <<1, 106337975, 16187392, -55>>,
      <<1, 100436502, 10551151, -99>>>>,
    <<<<1, 109051904, 0, -53>>, <<1, 111475535, 9101312, -55>>,
      <<-1, 102535380, 5644649, -97>>>>,
    <<<<1, 108527616, 0, -53>>, <<1, 114062869, 56348672, -55>>,
      <<-1, 118317907, 44884394, -99>>>>,
    <<<<1, 108003328, 0, -53>>, <<1, 116662734, 3923968, -55>>,
      <<-1, 122876182, 22287030, -97>>>>,
    <<<<1, 107479040, 0, -53>>, <<1, 119275249, 49287168, -55>>,
      <<-1, 75177137, 26618834, -100>>>>,
    <<<<1, 106430464, 0, -53>>, <<1, 124538732, 13930496, -55>>,
      <<-1, 113232573, 51753013, -97>>>>,
    <<<<1, 105906176, 0, -53>>, <<1, 127189951, 65474560, -55>>,
      <<1, 75794904, 4322352, -103>>>>,
    <<<<1, 105381888, 0, -53>>, <<1, 129854329, 14483456, -55>>,
      <<-1, 109593945, 29068817, -103>>>>,
    <<<<1, 104857600, 0, -53>>, <<1, 132531995, 11776000, -55>>,
      <<1, 116587314, 34398000, -98>>>>,
    <<<<1, 103809024, 0, -53>>, <<1, 68963864, 5068800, -54>>,
      <<1, 103233221, 49106577, -100>>>>,
    <<<<1, 103284736, 0, -53>>, <<1, 70323033, 56713216, -54>>,
      <<1, 96871109, 37546729, -97>>>>,
    <<<<1, 102760448, 0, -53>>, <<1, 71689120, 36169728, -54>>,
      <<-1, 117982104, 61206556, -97>>>>,
    <<<<1, 102236160, 0, -53>>, <<1, 73062194, 61667328, -54>>,
      <<1, 115782525, 61150849, -97>>>>,
    <<<<1, 101711872, 0, -53>>, <<1, 74442328, 56256512, -54>>,
      <<1, 120175444, 21478839, -97>>>>,
    <<<<1, 101187584, 0, -53>>, <<1, 75829595, 17741824, -54>>,
      <<1, 111277998, 38189802, -99>>>>,
    <<<<1, 100139008, 0, -53>>, <<1, 78625823, 14454784, -54>>,
      <<1, 111623826, 38798580, -97>>>>,
    <<<<1, 99614720, 0, -53>>, <<1, 80034936, 30629888, -54>>,
      <<-1, 104373940, 52509880, -97>>>>,
    <<<<1, 99090432, 0, -53>>, <<1, 81451485, 46010368, -54>>,
      <<1, 73118572, 15824840, -98>>>>,
    <<<<1, 98566144, 0, -53>>, <<1, 82875549, 53686272, -54>>,
      <<1, 101635373, 33996124, -98>>>>,
    <<<<1, 98041856, 0, -53>>, <<1, 84307208, 64350208, -54>>,
      <<1, 104402363, 9494685, -99>>>>,
    <<<<1, 97517568, 0, -53>>, <<1, 85746544, 41011200, -54>>,
      <<-1, 130675586, 23582325, -97>>>>,
    <<<<1, 96993280, 0, -53>>, <<1, 87193639, 35074048, -54>>,
      <<-1, 126362182, 51042468, -97>>>>,
    <<<<1, 96468992, 0, -53>>, <<1, 88648577, 54042624, -54>>,
      <<1, 128949280, 23381849, -97>>>>,
    <<<<1, 95944704, 0, -53>>, <<1, 90111444, 63492096, -54>>,
      <<1, 132873083, 39665903, -98>>>>,
    <<<<1, 95420416, 0, -53>>, <<1, 91582327, 56188928, -54>>,
      <<-1, 109234818, 10773980, -99>>>>
    >>

\* 128 / ln 2, 1.5 * 2^52 and -(ln 2) / 128 in two parts
InvLn2N == Double(1, 96817625, 19628798, -45)

Shift == Double(1, 100663296, 0, 0)

NegLn2hiN == Double(-1, 93032639, 49938432, -60)

NegLn2loN == Double(-1, 121497263, 10369850, -99)

\* the coefficients of the polynomial of exp_inline
C2 == Double(1, 134217727, 67108285, -54)

C3 == Double(1, 89478485, 22369340, -55)

C4 == Double(1, 89478515, 51850129, -57)

C5 == Double(1, 71582809, 61132823, -59)

\* the table of exp_inline: <<tail, scale>> with 2^(j / 128) = scale * (1 + tail)
\* for j = 0 .. 127
ExpTab == <<
    <<<<1, 0, 0, 0>>, <<1, 67108864, 0, -52>>>>,
    <<<<1, 114217926, 42516334, -106>>, <<1, 67473258, 33239861, -52>>>>,
    <<<<-1, 72877287, 14212189, -108>>, <<1, 67839631, 41386081, -52>>>>,
    <<<<-1, 68656772, 8873681, -106>>, <<1, 68207994, 7241605, -52>>>>,
    <<<<1, 120886413, 23590419, -107>>, <<1, 68578356, 51742068, -52>>>>,
    <<<<-1, 116629512, 66686714, -107>>, <<1, 68950730, 31323870, -52>>>>,
    <<<<1, 71160728, 31901793, -109>>, <<1, 69325126, 7707592, -52>>>>,
    <<<<1, 69794070, 53728153, -106>>, <<1, 69701554, 46592899, -52>>>>,
    <<<<1, 99002775, 25394029, -106>>, <<1, 70080027, 16353551, -52>>>>,
    <<<<1, 128796324, 50196476, -107>>, <<1, 70460554, 57821175, -52>>>>,
    <<<<1, 128946012, 3120337, -112>>, <<1, 70843148, 47436194, -52>>>>,
    <<<<-1, 109104418, 26242571, -109>>, <<1, 71227819, 67031835, -52>>>>,
    <<<<-1, 89494666, 36683022, -106>>, <<1, 71614580, 1203025, -52>>>>,
    <<<<-1, 69221347, 5171797, -110>>, <<1, 72003440, 7090636, -52>>>>,
    <<<<-1, 74598638, 30798870, -106>>, <<1, 72394411, 44641760, -52>>>>,
    <<<<1, 70580474, 22828463, -107>>, <<1, 72787506, 10849873, -52>>>>,
    <<<<-1, 67552634, 44405576, -107>>, <<1, 73182735, 8212859, -52>>>>,
    <<<<-1, 130546709, 31339069, -107>>, <<1, 73580110, 9211370, -52>>>>,
    <<<<1, 115499791, 51598271, -107>>, <<1, 73979642, 57658229, -52>>>>,
    <<<<-1, 95840029, 34728742, -106>>, <<1, 74381345, 285908, -52>>>>,
    <<<<1, 112934351, 37367648, -106>>, <<1, 74785228, 23640490, -52>>>>,
    <<<<-1, 133816498, 59127965, -107>>, <<1, 75191304, 50125085, -52>>>>,
    <<<<1, 110874705, 10929037, -107>>, <<1, 75599586, 6458582, -52>>>>,
    <<<<1, 69108076, 14943357, -107>>, <<1, 76010084, 25025686, -52>>>>,
    <<<<1, 94617464, 61384852, -106>>, <<1, 76422811, 41247288, -52>>>>,
    <<<<1, 98010684, 41175165, -107>>, <<1, 76837779, 62039615, -52>>>>,
    <<<<1, 68274918, 2090994, -107>>, <<1, 77255001, 31620317, -52>>>>,
    <<<<-1, 95297231, 57739358, -106>>, <<1, 77674488, 32859009, -52>>>>,
    <<<<1, 79558747, 17410865, -107>>, <<1, 78096253, 18865889, -52>>>>,
    <<<<-1, 122185414, 40878074, -112>>, <<1, 78520308, 14342544, -52>>>>,
    <<<<1, 114155676, 34343604, -107>>, <<1, 78946665, 48497419, -52>>>>,
    <<<<1, 126166178, 30329743, -109>>, <<1, 79375338, 20852566, -52>>>>,
    <<<<1, 80960851, 28355510, -107>>, <<1, 79806338, 36812565, -52>>>>,
    <<<<1, 93356152, 44856396, -107>>, <<1, 80239679, 5036081, -52>>>>,
    <<<<1, 133647959, 30668874, -107>>, <<1, 80675372, 40113919, -52>>>>,
    <<<<-1, 94953486, 59661060, -107>>, <<1, 81113431, 59940849, -52>>>>,
    <<<<-1, 76725107, 4935784, -106>>, <<1, 81553869, 54176203, -52>>>>,
    <<<<-1, 104988166, 55651726, -106>>, <<1, 81996699, 17160294, -52>>>>,
    <<<<-1, 74742287, 43267794, -108>>, <<1, 82441933, 15048695, -52>>>>,
    <<<<-1, 105268844, 63838997, -106>>, <<1, 82889584, 51620069, -52>>>>,
    <<<<1, 90690089, 53103725, -107>>, <<1, 83339667, 1192994, -52>>>>,
    <<<<-1, 79992862, 36202890, -106>>, <<1, 83792193, 11304988, -52>>>>,
    <<<<-1, 103408594, 1542491, -110>>, <<1, 84247176, 32976426, -52>>>>,
    <<<<-1, 118171353, 55155227, -108>>, <<1, 84704630, 22063255, -52>>>>,
    <<<<1, 81328984, 12758033, -111>>, <<1, 85164568, 6392109, -52>>>>,
    <<<<1, 93946446, 50750703, -106>>, <<1, 85627003, 18677847, -52>>>>,
    <<<<1, 129185910, 44106617, -109>>, <<1, 86091949, 29441232, -52>>>>,
    <<<<1, 83878799, 51319344, -106>>, <<1, 86559420, 14144478, -52>>>>,
    <<<<1, 94647214, 58372016, -108>>, <<1, 87029429, 20326951, -52>>>>,
    <<<<1, 80179066, 55894135, -106>>, <<1, 87501990, 33414413, -52>>>>,
    <<<<-1, 132451584, 7447438, -107>>, <<1, 87977117, 43855015, -52>>>>,
    <<<<-1, 100119351, 9675593, -107>>, <<1, 88454824, 47146562, -52>>>>,
    <<<<-1, 104313263, 17774687, -108>>, <<1, 88935125, 43863938, -52>>>>,
    <<<<-1, 92574139, 8084726, -107>>, <<1, 89418034, 39686671, -52>>>>,
    <<<<1, 80560454, 16635790, -106>>, <<1, 89903565, 45426650, -52>>>>,
    <<<<1, 115748299, 59415301, -108>>, <<1, 90391733, 9947133, -52>>>>,
    <<<<1, 68745336, 35410953, -106>>, <<1, 90882551, 21517353, -52>>>>,
    <<<<1, 87155028, 1689322, -112>>, <<1, 91376034, 39405239, -52>>>>,
    <<<<1, 84720010, 56934453, -106>>, <<1, 91872197, 28123464, -52>>>>,
    <<<<-1, 121180824, 26834591, -107>>, <<1, 92371054, 24566793, -52>>>>,
    <<<<-1, 118288718, 66014632, -107>>, <<1, 92872620, 3822981, -52>>>>,
    <<<<-1, 85253666, 19655086, -107>>, <<1, 93376909, 13419296, -52>>>>,
    <<<<-1, 83081054, 5658712, -106>>, <<1, 93883936, 39133733, -52>>>>,
    <<<<1, 96742048, 8264036, -110>>, <<1, 94393717, 5024115, -52>>>>,
    <<<<-1, 82639855, 56500776, -106>>, <<1, 94906265, 41892813, -52>>>>,
    <<<<-1, 109357921, 53787010, -109>>, <<1, 95421597, 17554111, -52>>>>,
    <<<<-1, 81394670, 7186926, -109>>, <<1, 95939727, 6625839, -52>>>>,
    <<<<-1, 70717269, 14714961, -107>>, <<1, 96460670, 22123652, -52>>>>,
    <<<<-1, 101177631, 39468751, -108>>, <<1, 96984442, 15490932, -52>>>>,
    <<<<-1, 96178864, 9141680, -107>>, <<1, 97511058, 10846580, -52>>>>,
    <<<<-1, 92687495, 39184010, -107>>, <<1, 98040533, 37906377, -52>>>>,
    <<<<1, 69677783, 34198739, -106>>, <<1, 98572883, 64904511, -52>>>>,
    <<<<-1, 114079534, 21865757, -108>>, <<1, 99108124, 65732999, -52>>>>,
    <<<<1, 87768917, 6799467, -106>>, <<1, 99646272, 19972402, -52>>>>,
    <<<<1, 91945066, 64384085, -109>>, <<1, 100187341, 47140450, -52>>>>,
    <<<<-1, 103313739, 62115650, -107>>, <<1, 100731349, 4069906, -52>>>>,
    <<<<-1, 81423804, 20657972, -106>>, <<1, 101278310, 21810707, -52>>>>,
    <<<<-1, 68657422, 35258142, -107>>, <<1, 101828241, 35899309, -52>>>>,
    <<<<-1, 87364662, 7493486, -106>>, <<1, 102381158, 54825709, -52>>>>,
    <<<<1, 69949910, 51284480, -106>>, <<1, 102937078, 25847449, -52>>>>,
    <<<<1, 124636144, 32565940, -107>>, <<1, 103496016, 36348123, -52>>>>,
    <<<<-1, 91068455, 12969983, -109>>, <<1, 104057989, 45433996, -52>>>>,
    <<<<1, 117285078, 32726852, -108>>, <<1, 104623014, 18183990, -52>>>>,
    <<<<-1, 79841257, 52313475, -106>>, <<1, 105191106, 59899846, -52>>>>,
    <<<<-1, 124415522, 57417257, -110>>, <<1, 105762284, 13485541, -52>>>>,
    <<<<-1, 118029919, 9484633, -109>>, <<1, 106336562, 63459855, -52>>>>,
    <<<<-1, 76599496, 49609130, -106>>, <<1, 106913959, 64900688, -52>>>>,
    <<<<-1, 91396917, 57052747, -107>>, <<1, 107494492, 13240250, -52>>>>,
    <<<<1, 74186506, 59887143, -108>>, <<1, 108078176, 44298384, -52>>>>,
    <<<<1, 125078904, 17462203, -109>>, <<1, 108665030, 31662883, -52>>>>,
    <<<<-1, 99696904, 39985763, -107>>, <<1, 109255070, 56485221, -52>>>>,
    <<<<1, 113713592, 65155541, -107>>, <<1, 109848315, 4861235, -52>>>>,
    <<<<-1, 74380404, 62700309, -106>>, <<1, 110444780, 37627229, -52>>>>,
    <<<<1, 70454375, 15610322, -106>>, <<1, 111044484, 53523288, -52>>>>,
    <<<<1, 85614875, 41114291, -107>>, <<1, 111647445, 24772031, -52>>>>,
    <<<<-1, 79164261, 59678132, -107>>, <<1, 112253679, 64222074, -52>>>>,
    <<<<1, 117874148, 46871431, -107>>, <<1, 112863206, 22729645, -52>>>>,
    <<<<-1, 69133266, 47307258, -106>>, <<1, 113476042, 26064486, -52>>>>,
    <<<<-1, 91289173, 48017082, -110>>, <<1, 114092206, 5182971, -52>>>>,
    <<<<-1, 69796751, 27719232, -106>>, <<1, 114711715, 31807802, -52>>>>,
    <<<<-1, 104185102, 11375412, -109>>, <<1, 115334588, 50028103, -52>>>>,
    <<<<-1, 75217050, 56134197, -106>>, <<1, 115960844, 10552906, -52>>>>,
    <<<<1, 88077762, 39837133, -108>>, <<1, 116590500, 4964818, -52>>>>,
    <<<<-1, 74415870, 43161772, -106>>, <<1, 117223574, 64429577, -52>>>>,
    <<<<1, 81505164, 11472051, -108>>, <<1, 117860087, 25514652, -52>>>>,
    <<<<1, 129551511, 10485140, -107>>, <<1, 118500055, 67096698, -52>>>>,
    <<<<1, 87565300, 17389996, -107>>, <<1, 119143499, 39309643, -52>>>>,
    <<<<1, 83061710, 5118567, -109>>, <<1, 119790437, 452533, -52>>>>,
    <<<<1, 98224923, 9574760, -109>>, <<1, 120440887, 15700073, -52>>>>,
    <<<<-1, 69371424, 63747538, -107>>, <<1, 121094869, 22922234, -52>>>>,
    <<<<-1, 132863823, 67107439, -107>>, <<1, 121752402, 34048380, -52>>>>,
    <<<<-1, 67333006, 7711049, -106>>, <<1, 122413506, 887282, -52>>>>,
    <<<<1, 86565225, 37554087, -108>>, <<1, 123078199, 16491655, -52>>>>,
    <<<<-1, 77883272, 4203023, -107>>, <<1, 123746501, 46760856, -52>>>>,
    <<<<1, 127308853, 29463212, -107>>, <<1, 124418432, 64696965, -52>>>>,
    <<<<1, 84842091, 93003, -107>>, <<1, 125094012, 50443360, -52>>>>,
    <<<<-1, 78989377, 62144031, -107>>, <<1, 125773260, 58432351, -52>>>>,
    <<<<-1, 105557582, 54988233, -107>>, <<1, 126456197, 16097577, -52>>>>,
    <<<<1, 86868248, 3836115, -108>>, <<1, 127142841, 59457526, -52>>>>,
    <<<<1, 82934548, 27095665, -107>>, <<1, 127833214, 63392899, -52>>>>,
    <<<<-1, 134071459, 64197104, -107>>, <<1, 128527336, 44339418, -52>>>>,
    <<<<-1, 124495416, 35878013, -107>>, <<1, 129225227, 26109937, -52>>>>,
    <<<<1, 129036048, 27926536, -107>>, <<1, 129926907, 39934503, -52>>>>,
    <<<<1, 84600112, 61467442, -107>>, <<1, 130632397, 57391767, -52>>>>,
    <<<<1, 110701132, 30508526, -107>>, <<1, 131341718, 57558336, -52>>>>,
    <<<<-1, 126742201, 3924973, -107>>, <<1, 132054891, 27049492, -52>>>>,
    <<<<1, 98717395, 26332573, -108>>, <<1, 132771936, 27168984, -52>>>>,
    <<<<1, 79786064, 23121033, -110>>, <<1, 133492874, 59732465, -52>>>>
    >>

\* the mantissas of 0x1.69555p-1, the lower end of the range of z in
\* log_inline, without and with its highest bit, and of Shift
OffFrac == <<0, 0, 21844, 52>>

OffMant == <<0, 0, 21844, 180>>

ShiftMant == <<0, 0, 0, 192>>

\* log_inline: ln(x) as [hi, lo], hi + lo within 2^-68 of it in proportion,
\* for x = z * 2^k with z in [0x1.69555p-1, 0x1.69555p0) and T the entry of
\* the table for z: ln(x) = k * ln 2 + ln c + ln(z / c), the last by the
\* polynomial in r = z / c - 1
LogPair(hi, lo, y) == [hi |-> y, lo |-> Add(Sub(hi, y), lo)]

LogSum(hi, lo) == LogPair(hi, lo, Add(hi, lo))

LogPoly(r, ar2) ==
    Fma(ar2, Fma(Fma(r, A6, A5), ar2, Fma(r, A4, A3)), Fma(r, A2, A1))

LogLo(r, ar2, ar3, hi, lo3, t2) ==
    LogSum(hi, Fma(ar3, LogPoly(r, ar2), Add(lo3, Add(Sub(t2, hi), ar2))))

LogHi(r, lo1, ar, t2, ar2, lo2) ==
    LogLo(r, ar2, Mul(r, ar2), Add(t2, ar2),
          Add(Add(lo1, lo2), Fma(ar, r, Neg(ar2))), t2)

LogAr(r, t1, lo1, ar, t2) ==
    LogHi(r, lo1, ar, t2, Mul(r, ar), Add(Sub(t1, t2), r))

LogR(r, t1, lo1) == LogAr(r, t1, lo1, Mul(r, A0), Add(r, t1))

LogTerms(z, kd, T) ==
    LogR(Fma(z, Entry(T[1]), MinusOne), Fma(kd, Ln2hi, Entry(T[2])),
         Fma(kd, Ln2lo, Entry(T[3])))

\* for the mantissa m of x and the exponent e of its highest bit
log_inline(m, e) ==
    IF BCmp(m, OffMant) >= 0
    THEN LogTerms(Man(m, -53), Flt(e + 1),
                  PowLogTab[BLimb(BSub(m, OffMant), 4) + 1])
    ELSE LogTerms(Man(m, -52), Flt(e),
                  PowLogTab[BLimb(BSub(m, OffFrac), 4) + 1])

\* scale * 2^q
Scaled(scale, q) == [scale EXCEPT !.e = scale.e + q]

\* specialcase: scale * 2^q * (1 + tmp) where 2^q is beyond the floats; the
\* sum is rounded once more before it is scaled into the subnormal range
SpecialFix(y) == IF IsZero(y) THEN Zero ELSE y

SpecialHi(y, lo, one, hi) ==
    SpecialFix(Sub(Add(Add(Add(Sub(one, hi), y), lo), hi), one))

SpecialRound(y, lo, one) == SpecialHi(y, lo, one, Add(one, y))

SpecialY(scale, st, y) ==
    IF Gt(One, Fabs(y))
    THEN Mul(SpecialRound(y, Add(Sub(scale, y), st),
                          IF Gt(Zero, y) THEN MinusOne ELSE One), TwoTo(-1022))
    ELSE Mul(y, TwoTo(-1022))

SpecialDown(scale, st) == SpecialY(scale, st, Add(scale, st))

SpecialUp(scale, tmp) == Mul(Fma(scale, tmp, scale), TwoTo(1009))

specialcase(tmp, scale, q, n) ==
    IF n >= 0 THEN SpecialUp(Scaled(scale, q - 1009), tmp)
    ELSE SpecialDown(Scaled(scale, q + 1022), Mul(tmp, Scaled(scale, q + 1022)))

\* exp_inline: exp(x + xtail) = 2^(n / 128) * exp(r) with the integer n
\* nearest to x * 128 / ln 2 and r the rest; 2^(n / 128) is the entry
\* n % 128 of the table times 2^(n \div 128), exp(r) - 1 the polynomial
ExpScale(x, tmp, T, q, n) ==
    IF TopExp(x) = 9 THEN specialcase(tmp, Entry(T[2]), q, n)
    ELSE Fma(tmp, Scaled(Entry(T[2]), q), Scaled(Entry(T[2]), q))

ExpTmp(x, r, r2, T, n) ==
    ExpScale(x, Fma(Fma(r, C5, C4), Mul(r2, r2),
                    Fma(Fma(r, C3, C2), r2, Add(r, Entry(T[1])))),
             T, (n - (n % 128)) \div 128, n)

ExpR(x, r, n) == ExpTmp(x, r, Mul(r, r), ExpTab[(n % 128) + 1], n)

ExpN(x, xtail, kd, n) ==
    ExpR(x, Add(xtail, Fma(kd, NegLn2loN, Fma(kd, NegLn2hiN, x))), n)

ExpK(x, xtail, kds) ==
    ExpN(x, xtail, Sub(kds, Shift),
         IF BCmp(kds.m, ShiftMant) >= 0 THEN BToInt(BSub(kds.m, ShiftMant))
         ELSE -BToInt(BSub(ShiftMant, kds.m)))

exp_inline(x, xtail) ==
    IF IsZero(x) \/ TopExp(x) < -54 THEN Add(One, x)
    ELSE IF TopExp(x) >= 10 THEN (IF x.s < 0 THEN Zero ELSE Inf(1))
    ELSE ExpK(x, xtail, Fma(x, InvLn2N, Shift))

\* pow(x, y) of the C library for finite x > 0 and finite y != 0:
\* exp(y * ln(x)), the product in two parts [ehi, elo]
PowExp(y, l, ehi) == exp_inline(ehi, Fma(y, l.lo, Fma(l.hi, y, Neg(ehi))))

PowLog(y, l) == PowExp(y, l, Mul(y, l.hi))

pow(x, y) ==
    IF TopExp(y) < -65 \/ TopExp(y) >= 63
    THEN (IF x = One THEN One
          ELSE IF TopExp(y) < -65
          THEN (IF Gt(x, One) THEN Add(One, y) ELSE Sub(One, y))
          ELSE IF Gt(x, One) = (y.s > 0) THEN Inf(1) ELSE Zero)
    ELSE PowLog(y, log_inline(Mant(x), TopExp(x)))

\* float_pow turns an infinite result of pow into OverflowError
PowResult(v, negate) ==
    IF v.k = "inf" THEN Raise("OverflowError")
    ELSE Ok(IF negate THEN Neg(v) ELSE v)

\* x ** y as float_pow computes it: [exc |-> the exception raised or "none",
\* v |-> the result]; a negative x with a y that is not an integer gives a
\* complex number, which is not modelled
Pow(x, y) ==
    IF IsZero(y) THEN Ok(One)
    ELSE IF x.k = "nan" THEN Ok(x)
    ELSE IF y.k = "nan" THEN Ok(IF x = One THEN One ELSE NaN)
    ELSE IF y.k = "inf"
    THEN Ok(IF Fabs(x) = One THEN One
            ELSE IF (y.s > 0) = Gt(Fabs(x), One) THEN Inf(1) ELSE Zero)
    ELSE IF x.k = "inf"
    THEN Ok(IF y.s > 0 THEN (IF IsOddInteger(y) THEN x ELSE Inf(1))
            ELSE (IF IsOddInteger(y) THEN SignedZero(x.s) ELSE Zero))
    ELSE IF IsZero(x)
    THEN (IF y.s < 0 THEN Raise("ZeroDivisionError")
          ELSE Ok(IF IsOddInteger(y) THEN x ELSE Zero))
    ELSE IF x.s < 0 /\ ~IsInteger(y) THEN Unsupported(<<x, y>>)
    ELSE IF Fabs(x) = One
    THEN Ok(IF x.s < 0 /\ IsOddInteger(y) THEN MinusOne ELSE One)
    ELSE PowResult(pow(Fabs(x), y), x.s < 0 /\ IsOddInteger(y))

\* ------------------------------------------------- calculate_parameters

\* x / y as Python evaluates it
PyDiv(x, y) == IF IsZero(y) THEN Raise("ZeroDivisionError") ELSE Ok(Div(x, y))

\* faulty variant of Recovery: guarded by pt_i > 0 instead of pt_i != 0
RecoveryPositive(data) ==
    IF Gt(data.pt_i, Zero) THEN PyDiv(data.pt_e, data.pt_i) ELSE Ok(Zero)

\* faulty variant of Recovery: the denominator is offset to keep it from zero
RecoveryOffset(data) ==
    IF ~IsZero(data.pt_i) THEN PyDiv(data.pt_e, Add(data.pt_i, One)) ELSE Ok(Zero)

\* 1. total pressure recovery
Recovery(data) ==
    IF ~IsZero(data.pt_i) THEN PyDiv(data.pt_e, data.pt_i) ELSE Ok(Zero)

\* faulty variant of KeGuard: the test mach > 0 is missing
KeGuardNoMach(data) == Gt(data.gamma, One) /\ Gt(data.pt_e, Zero)

\* the guard of the kinetic energy block
KeGuard(data) ==
    Gt(data.mach, Zero) /\ Gt(data.gamma, One) /\ Gt(data.pt_e, Zero)

\* ke_eff = 1 - (term1 * term2 * bracket), bracket from temp_ratio and the power
KeResult(term1, term2, temp_ratio, pw) ==
    IF Raised(pw) THEN pw
    ELSE Ok(Sub(One, Mul(Mul(term1, term2), Sub(Mul(temp_ratio, pw.v), One))))

\* the statements under "if base > 0", after exponent and temp_ratio
KePower(term1, term2, base, exponent, temp_ratio) ==
    IF Raised(exponent) THEN exponent
    ELSE IF Raised(temp_ratio) THEN temp_ratio
    ELSE KeResult(term1, term2, temp_ratio.v, Pow(base, exponent.v))

\* the statements after term2 and base
KeBase(data, term1, term2, base) ==
    IF Raised(term2) THEN term2
    ELSE IF Raised(base) THEN base
    ELSE IF ~Gt(base.v, Zero) THEN Ok(Zero)
    ELSE KePower(term1, term2.v, base.v,
                 PyDiv(Sub(data.gamma, One), data.gamma),
                 IF ~IsZero(data.tt_i) THEN PyDiv(data.tt_e, data.tt_i) ELSE Ok(One))

\* the statements after term1 and mach ** 2
KeTerms(data, term1, sq) ==
    IF Raised(term1) THEN term1
    ELSE IF Raised(sq) THEN sq
    ELSE KeBase(data, term1.v, PyDiv(One, sq.v), PyDiv(data.pt_i, data.pt_e))

\* 2. kinetic energy efficiency
KeEff(data) ==
    IF ~KeGuard(data) THEN Ok(Zero)
    ELSE KeTerms(data, PyDiv(One, Sub(data.gamma, One)), Pow(data.mach, Two))

StaticTempRatio(data) ==
    IF ~IsZero(data.t_i) THEN PyDiv(data.t_e, data.t_i) ELSE Ok(One)

\* ad_eff = 1 - (num * term2)
AdResult(num, term2) ==
    IF Raised(num) THEN num
    ELSE IF Raised(term2) THEN term2
    ELSE Ok(Sub(One, Mul(num.v, term2.v)))

\* the statements under "if (static_temp_ratio - 1) != 0", after mach ** 2
AdTerms(data, ke_eff, static_temp_ratio, sq) ==
    IF Raised(sq) THEN sq
    ELSE AdResult(PyDiv(Mul(Sub(data.gamma, One), sq.v), Two),
                  PyDiv(Sub(One, ke_eff), Sub(static_temp_ratio, One)))

\* the statements after static_temp_ratio
AdBlock(data, ke_eff, static_temp_ratio) ==
    IF Raised(static_temp_ratio) THEN static_temp_ratio
    ELSE IF IsZero(Sub(static_temp_ratio.v, One)) THEN Ok(Zero)
    ELSE AdTerms(data, ke_eff, static_temp_ratio.v, Pow(data.mach, Two))

\* faulty variant of AdEff: skipped when the kinetic energy guard is not met
AdEffShort(data, ke_eff) ==
    IF ~KeGuard(data) THEN Ok(Zero) ELSE AdBlock(data, ke_eff, StaticTempRatio(data))

\* 3. adiabatic compression efficiency, from the ke_eff computed before
AdEff(data, ke_eff) == AdBlock(data, ke_eff, StaticTempRatio(data))

\* faulty variant of Distortion: guarded by pt_avg != 0 instead of pt_avg > 0
DistortionNonZero(data) ==
    IF ~IsZero(data.pt_avg)
    THEN PyDiv(Sub(data.pt_max, data.pt_min), data.pt_avg)
    ELSE Ok(Zero)

\* 4. distortion index
Distortion(data) ==
    IF Gt(data.pt_avg, Zero)
    THEN PyDiv(Sub(data.pt_max, data.pt_min), data.pt_avg)
    ELSE Ok(Zero)

\* faulty variant of ShockEff: guarded by pr_th != 0 instead of pr_th > 0
ShockEffNonZero(data, recovery) ==
    IF ~IsZero(data.pr_th) THEN PyDiv(recovery, data.pr_th) ELSE Ok(Zero)

\* 5. shock compression efficiency, from the recovery computed before
ShockEff(data, recovery) ==
    IF Gt(data.pr_th, Zero) THEN PyDiv(recovery, data.pr_th) ELSE Ok(Zero)

\* the exception that ends the call: the first one raised, in statement order
FirstRaised(recovery, ke_eff, ad_eff, di, shock_eff) ==
    IF Raised(recovery) THEN recovery.exc
    ELSE IF Raised(ke_eff) THEN ke_eff.exc
    ELSE IF Raised(ad_eff) THEN ad_eff.exc
    ELSE IF Raised(di) THEN di.exc
    ELSE shock_eff.exc

\* faulty variant of Returned: a ke_eff of 0 zeroes the distortion as well
ReturnedZeroed(data, exc, recovery, ke_eff, ad_eff, di, shock_eff) ==
    IF exc # "none"
    THEN [exc |-> exc, Name |-> data.name, Recovery |-> Zero, KE_Eff |-> Zero,
          Adiabatic_Eff |-> Zero, Distortion |-> Zero, Shock_Eff |-> Zero]
    ELSE [exc |-> "none",
          Name |-> data.name,
          Recovery |-> recovery.v,
          KE_Eff |-> Mul(ke_eff.v, Hundred),
          Adiabatic_Eff |-> Mul(ad_eff.v, Hundred),
          Distortion |-> IF IsZero(ke_eff.v) THEN Zero ELSE di.v,
          Shock_Eff |-> Mul(shock_eff.v, Hundred)]

\* the returned dict, or the exception raised (exc # "none")
Returned(data, exc, recovery, ke_eff, ad_eff, di, shock_eff) ==
    IF exc # "none"
    THEN [exc |-> exc, Name |-> data.name, Recovery |-> Zero, KE_Eff |-> Zero,
          Adiabatic_Eff |-> Zero, Distortion |-> Zero, Shock_Eff |-> Zero]
    ELSE [exc |-> "none",
          Name |-> data.name,
          Recovery |-> recovery.v,
          KE_Eff |-> Mul(ke_eff.v, Hundred),
          Adiabatic_Eff |-> Mul(ad_eff.v, Hundred),
          Distortion |-> di.v,
          Shock_Eff |-> Mul(shock_eff.v, Hundred)]

Outcome(data, recovery, ke_eff, ad_eff, di, shock_eff) ==
    Returned(data, FirstRaised(recovery, ke_eff, ad_eff, di, shock_eff),
             recovery, ke_eff, ad_eff, di, shock_eff)

\* steps 3 to 5 and the return, from the recovery and ke_eff that steps 1 and
\* 2 left
Assemble(data, recovery, ke_eff) ==
    Outcome(data, recovery, ke_eff, AdEff(data, ke_eff.v), Distortion(data),
            ShockEff(data, recovery.v))

calculate_parameters(data) == Assemble(data, Recovery(data), KeEff(data))

\* ------------------------------------------------------------ session

\* str(n) for n >= 0
Digit(n) == <<"0", "1", "2", "3", "4", "5", "6", "7", "8", "9">>[n + 1]

RECURSIVE Str(_)
Str(n) == IF n < 10 THEN Digit(n) ELSE Str(n \div 10) \o Digit(n % 10)

\* the record appended for the inlet at 0-based position i
DefaultInlet(i) ==
    [name |-> "Inlet " \o Str(i + 1),
     gamma |-> Dec(14, 10), mach |-> Flt(2), pr_th |-> Dec(98, 100),
     pt_i |-> Flt(101325), pt_e |-> Flt(95000),
     pt_max |-> Flt(98000), pt_min |-> Flt(92000), pt_avg |-> Flt(95000),
     tt_i |-> Flt(300), tt_e |-> Flt(350),
     t_i |-> Flt(280), t_e |-> Flt(330)]

\* for i in range(i, n): list.append(default)
RECURSIVE Grow(_, _, _)
Grow(list, i, n) ==
    IF i >= n THEN list ELSE Grow(Append(list, DefaultInlet(i)), i + 1, n)

\* faulty variant of Resized: the list is never trimmed
ResizedNoTrim(list, n) ==
    IF Len(list) < n THEN Grow(list, Len(list), n) ELSE list

\* the session's inlet list after the resize block
Resized(list, n) ==
    LET current_count == Len(list)
    IN  IF current_count < n THEN Grow(list, current_count, n)
        ELSE IF current_count > n THEN SubSeq(list, 1, n)
        ELSE list

\* the number_input bounds and its initial value
min_value == 1

max_value == 10

value == 2

\* the inlet counts and the number of widget edits explored
MaxNum == 3

MaxEdits == 2

Counts == min_value .. Min(MaxNum, max_value)

\* values a user types into the widgets of an inlet tab
Typed ==
    << [f |-> "name",  v |-> "Ramp"],
       [f |-> "gamma", v |-> Two],
       [f |-> "mach",  v |-> TwoTo(600)] >>

NoEdit == [i |-> 0, f |-> "none", v |-> Zero]

VARIABLES
    inlets,         \* st.session_state.inlets
    num_inlets,     \* the value of the inlet count widget
    current_count,  \* len(inlets) as the resize block read it
    pending,        \* the widget the user changed, applied by this run
    clicked,        \* the Calculate button was pressed for this run
    edits,          \* widget edits so far
    results,        \* the list the comprehension is building
    outcome,        \* of the last batch: "none", "ok" or the exception raised
    pc,             \* position of the script run
    data,           \* calculator: the measurement
    factor,         \* calculator: the pressure scale factor
    metrics,        \* calculator: calculate_parameters(data)
    scaled,         \* calculator: calculate_parameters of the scaled data
    cpc             \* calculator: position

vars == <<inlets, num_inlets, current_count, pending, clicked, edits, results,
          outcome, pc, data, factor, metrics, scaled, cpc>>

sessionVars == <<inlets, num_inlets, current_count, pending, clicked, edits,
                 results, outcome, pc>>

calcVars == <<data, factor, metrics, scaled, cpc>>

NoMetrics ==
    [exc |-> "unset", Name |-> "", Recovery |-> Zero, KE_Eff |-> Zero,
     Adiabatic_Eff |-> Zero, Distortion |-> Zero, Shock_Eff |-> Zero]

\* the first script run of a session: empty list, count widget at its value
InitSession ==
    /\ inlets = <<>>
    /\ num_inlets = value
    /\ current_count = 0
    /\ pending = NoEdit
    /\ clicked = FALSE
    /\ edits = 0
    /\ results = <<>>
    /\ outcome = "none"
    /\ pc = "resize"

IdleCalc ==
    /\ data = DefaultInlet(0)
    /\ factor = One
    /\ metrics = NoMetrics
    /\ scaled = NoMetrics
    /\ cpc = "off"

Init == InitSession /\ IdleCalc

\* the user picks a number of inlets: the script reruns
SelectCount(n) ==
    /\ pc = "idle"
    /\ num_inlets' = n
    /\ pending' = NoEdit
    /\ clicked' = FALSE
    /\ pc' = "resize"
    /\ UNCHANGED <<inlets, current_count, edits, results, outcome>>
    /\ UNCHANGED calcVars

\* the user changes one widget of inlet tab i: the script reruns
EditInput(i, t) ==
    /\ pc = "idle"
    /\ edits < MaxEdits
    /\ i \in 1 .. Len(inlets)
    /\ inlets[i][t.f] # t.v
    /\ pending' = [i |-> i, f |-> t.f, v |-> t.v]
    /\ edits' = edits + 1
    /\ clicked' = FALSE
    /\ pc' = "resize"
    /\ UNCHANGED <<inlets, num_inlets, current_count, results, outcome>>
    /\ UNCHANGED calcVars

\* the user presses Calculate Parameters: the script reruns
ClickCalculate ==
    /\ pc = "idle"
    /\ pending' = NoEdit
    /\ clicked' = TRUE
    /\ pc' = "resize"
    /\ UNCHANGED <<inlets, num_inlets, current_count, edits, results, outcome>>
    /\ UNCHANGED calcVars

\* the resize block
Resize ==
    /\ pc = "resize"
    /\ current_count' = Len(inlets)
    /\ inlets' = Resized(inlets, num_inlets)
    /\ pc' = "inputs"
    /\ UNCHANGED <<num_inlets, pending, clicked, edits, results, outcome>>
    /\ UNCHANGED calcVars

\* the tabs: every field of every inlet is assigned its widget's value
Inputs ==
    /\ pc = "inputs"
    /\ inlets' = IF pending.i \in 1 .. Len(inlets)
                 THEN [inlets EXCEPT ![pending.i][pending.f] = pending.v]
                 ELSE inlets
    /\ pending' = NoEdit
    /\ results' = <<>>
    /\ outcome' = "none"
    /\ pc' = IF clicked THEN "calc" ELSE "idle"
    /\ UNCHANGED <<num_inlets, current_count, clicked, edits>>
    /\ UNCHANGED calcVars

\* faulty variant of Collected: the new record is put in front
CollectedFront(list, r) == <<r>> \o list

\* the list after one more iteration of the comprehension
Collected(list, r) == Append(list, r)

\* what one iteration does with the value computed for its inlet: the
\* list grows by it, or the exception it raised ends the run
CollectOrStop(r) ==
    IF r.exc = "none"
    THEN /\ results' = Collected(results, r)
         /\ UNCHANGED <<outcome, pc>>
    ELSE /\ results' = <<>>
         /\ outcome' = r.exc
         /\ pc' = "idle"

\* one iteration of [calculate_parameters(inlet) for inlet in inlets]
CalcStep ==
    /\ pc = "calc"
    /\ Len(results) < Len(inlets)
    /\ CollectOrStop(calculate_parameters(inlets[Len(results) + 1]))
    /\ clicked' = IF pc' = "idle" THEN FALSE ELSE clicked
    /\ UNCHANGED <<inlets, num_inlets, current_count, pending, edits>>
    /\ UNCHANGED calcVars

\* the comprehension is exhausted: the table and charts show results
CalcDone ==
    /\ pc = "calc"
    /\ Len(results) = Len(inlets)
    /\ outcome' = "ok"
    /\ clicked' = FALSE
    /\ pc' = "idle"
    /\ UNCHANGED <<inlets, num_inlets, current_count, pending, edits, results>>
    /\ UNCHANGED calcVars

Next ==
    \/ \E n \in Counts : SelectCount(n)
    \/ \E i \in 1 .. MaxNum, j \in 1 .. Len(Typed) : EditInput(i, Typed[j])
    \/ ClickCalculate
    \/ Resize
    \/ Inputs
    \/ CalcStep
    \/ CalcDone

Spec == Init /\ [][Next]_vars

\* ---------------------------------------------------------- calculator

\* the pressure scale factors explored: 3, and 2^s for 0 < |s| <= MaxShift
MaxShift == 1

\* the measurement values explored, field by field
Gammas == {Dec(7, 5), One}

Machs == {Two, Zero, Neg(One), TwoTo(600), TwoTo(-600)}

TheoreticalRatios == {Dec(49, 50), Zero, Neg(One)}

InletPressures == {Flt(4), Zero, Neg(One), Tiny(1)}

ExitPressures == {One, Zero, Neg(One), Largest, Tiny(3), Dec(1, 10)}

AveragePressures == {Two, Zero, Neg(One)}

InletTemperatures == {One, Zero}

ExitTemperatures == {Two, One}

\* a measurement none of whose guards is triggered
Nominal ==
    [name |-> "Inlet 1", gamma |-> Dec(7, 5), mach |-> Two, pr_th |-> Dec(49, 50),
     pt_i |-> Flt(4), pt_e |-> One,
     pt_max |-> Flt(3), pt_min |-> One, pt_avg |-> Two,
     tt_i |-> One, tt_e |-> Two,
     t_i |-> One, t_e |-> Two]

AllMeasurements ==
    [name : {"Inlet 1"}, gamma : Gammas, mach : Machs, pr_th : TheoreticalRatios,
     pt_i : InletPressures, pt_e : ExitPressures,
     pt_max : {Flt(3)}, pt_min : {One}, pt_avg : AveragePressures,
     tt_i : InletTemperatures, tt_e : {Two},
     t_i : InletTemperatures, t_e : ExitTemperatures]

\* measurements whose metrics show the rounding of the arithmetic: 1 / 49 is
\* not a float, so that (1 / 49) * 49 and 49 * (1 / 49) are below 1 by 2^-53,
\* and 50331649 / 50331648 - 1 is 2^-25 - 2^-50 rounded
Rounding ==
    { [Nominal EXCEPT !.gamma = Two, !.mach = TwoTo(-100), !.pr_th = Dec(1, 2),
                      !.pt_i = Flt(2401), !.tt_i = Flt(49), !.tt_e = One],
      [Nominal EXCEPT !.gamma = Two, !.mach = TwoTo(-20), !.pr_th = Dec(1, 2),
                      !.pt_i = Flt(2401), !.tt_i = Flt(49), !.tt_e = One],
      [Nominal EXCEPT !.gamma = Flt(99), !.mach = One, !.pt_e = Zero,
                      !.t_e = Flt(50)],
      [Nominal EXCEPT !.gamma = Two, !.t_i = Flt(50331648),
                      !.t_e = Flt(50331649)],
      [Nominal EXCEPT !.mach = Dec(4, 5), !.pt_i = Flt(101325),
                      !.pt_e = Flt(95000), !.tt_i = Flt(300),
                      !.tt_e = Flt(350), !.t_i = Flt(280), !.t_e = Flt(330)] }

\* the measurements explored: those that differ from the nominal one in at
\* most two fields, and those of Rounding
Measurements ==
    {d \in AllMeasurements :
        Cardinality({f \in DOMAIN d : d[f] # Nominal[f]}) <= 2} \cup Rounding

Factors == {TwoTo(s) : s \in (-MaxShift .. MaxShift) \ {0}} \cup {Flt(3)}

\* the measurement with both total pressures multiplied by k
ScaledData(d, k) == [d EXCEPT !.pt_i = Mul(@, k), !.pt_e = Mul(@, k)]

InitCalc ==
    /\ InitSession
    /\ data \in Measurements
    /\ factor = One
    /\ metrics = NoMetrics
    /\ scaled = NoMetrics
    /\ cpc = "start"

\* calculate_parameters(data)
Compute ==
    /\ cpc = "start"
    /\ metrics' = calculate_parameters(data)
    /\ cpc' = "computed"
    /\ UNCHANGED <<data, factor, scaled>>
    /\ UNCHANGED sessionVars

\* calculate_parameters of the same measurement with its pressures scaled by k
ComputeScaled(k) ==
    /\ cpc = "computed"
    /\ factor' = k
    /\ scaled' = calculate_parameters(ScaledData(data, k))
    /\ cpc' = "scaled"
    /\ UNCHANGED <<data, metrics>>
    /\ UNCHANGED sessionVars

NextCalc ==
    \/ Compute
    \/ \E k \in Factors : ComputeScaled(k)

SpecCalc == InitCalc /\ [][NextCalc]_vars

\* ---------------------------------------------------------------- claims

\* the call for the measurement returned a metrics record
Returns == metrics.exc = "none"

MetricNames == {"Recovery", "KE_Eff", "Adiabatic_Eff", "Distortion", "Shock_Eff"}

\* the record alt, when the call that made it returned, reports the metrics
\* named in fields as the computed metrics do
SameMetrics(alt, fields) ==
    alt.exc = "none" => \A f \in fields : alt[f] = metrics[f]

\* values put in the place of what a step left
StepValues == {Zero, One}

\* the metrics in fields do not depend on what the recovery step left
IndepOfRecovery(fields) ==
    \A v \in StepValues : SameMetrics(Assemble(data, Ok(v), KeEff(data)), fields)

\* the metrics in fields do not depend on what the kinetic energy step left
IndepOfKe(fields) ==
    \A v \in StepValues : SameMetrics(Assemble(data, Recovery(data), Ok(v)), fields)

\* the metrics in fields do not depend on the static temperatures
IndepOfStaticTemps(fields) ==
    \A a \in InletTemperatures, b \in ExitTemperatures :
        SameMetrics(calculate_parameters([data EXCEPT !.t_i = a, !.t_e = b]), fields)

\* the metrics in fields do not depend on pt_avg
IndepOfAverage(fields) ==
    \A p \in AveragePressures :
        SameMetrics(calculate_parameters([data EXCEPT !.pt_avg = p]), fields)

\* the metrics in fields do not depend on pr_th
IndepOfTheoretical(fields) ==
    \A p \in TheoreticalRatios :
        SameMetrics(calculate_parameters([data EXCEPT !.pr_th = p]), fields)

\* the guards of the five metrics
RecoveryGuarded == IsZero(data.pt_i)

KeGuarded == ~KeGuard(data) \/ Le(Div(data.pt_i, data.pt_e), Zero)

AdGuarded == IsZero(Sub(StaticTempRatio(data).v, One))

DistortionGuarded == Le(data.pt_avg, Zero)

ShockGuarded == Le(data.pr_th, Zero)

\* C1 (as stated): calculate_parameters never raises, whatever numbers the
\* fields of the measurement hold: every call returns a metrics record.
C1_NeverRaises == metrics.exc \in {"unset", "none"}

\* C2 (as stated): when the guard of one metric is triggered, every other
\* metric of the record is what it would have been with another outcome of
\* that guard: none of the four others depends on the guarded step.
C2_OnlyAffectedMetric ==
    Returns =>
        /\ RecoveryGuarded => IndepOfRecovery(MetricNames \ {"Recovery"})
        /\ KeGuarded => IndepOfKe(MetricNames \ {"KE_Eff"})
        /\ AdGuarded => IndepOfStaticTemps(MetricNames \ {"Adiabatic_Eff"})
        /\ DistortionGuarded => IndepOfAverage(MetricNames \ {"Distortion"})
        /\ ShockGuarded => IndepOfTheoretical(MetricNames \ {"Shock_Eff"})

\* C2 (amended): a triggered guard leaves the other metrics of a returned
\* record unchanged, except that the adiabatic efficiency is computed from
\* the kinetic energy efficiency the guard left and the shock efficiency
\* from the recovery the guard left.
C2_IndependentGuards ==
    Returns =>
        /\ RecoveryGuarded => IndepOfRecovery(MetricNames \ {"Recovery", "Shock_Eff"})
        /\ KeGuarded => IndepOfKe(MetricNames \ {"KE_Eff", "Adiabatic_Eff"})
        /\ AdGuarded => IndepOfStaticTemps(MetricNames \ {"Adiabatic_Eff"})
        /\ DistortionGuarded => IndepOfAverage(MetricNames \ {"Distortion"})
        /\ ShockGuarded => IndepOfTheoretical(MetricNames \ {"Shock_Eff"})

\* C2 witness: a returned record whose kinetic energy guard was triggered
\* while recovery, distortion and shock efficiency are all non-zero
C2_Witness ==
    /\ cpc = "computed"
    /\ Returns
    /\ KeGuarded
    /\ IsZero(metrics.KE_Eff)
    /\ ~IsZero(metrics.Recovery)
    /\ ~IsZero(metrics.Distortion)
    /\ ~IsZero(metrics.Shock_Eff)

\* C3: a batch that completes yields one record per inlet, in the order of
\* the inlets: the i-th result is calculate_parameters of the i-th inlet
\* alone and carries its name; while the batch runs, the results so far are
\* those of the first inlets.
C3_BatchPreservesOrder ==
    /\ pc = "calc" =>
           /\ Len(results) <= Len(inlets)
           /\ \A i \in 1 .. Len(results) : results[i] = calculate_parameters(inlets[i])
    /\ (pc = "idle" /\ outcome = "ok") =>
           /\ Len(results) = Len(inlets)
           /\ \A i \in 1 .. Len(inlets) :
                  /\ results[i] = calculate_parameters(inlets[i])
                  /\ results[i].Name = inlets[i].name

\* C3 witness: a completed batch of at least two inlets, one of them edited
C3_Witness ==
    /\ pc = "idle"
    /\ outcome = "ok"
    /\ Len(results) >= 2
    /\ inlets[1].gamma = Two
    /\ results[1].Name = "Inlet 1"
    /\ results[2].Name = "Inlet 2"
    /\ results[1].KE_Eff # results[2].KE_Eff

\* C4: a returned record reports a shock efficiency of 0 when pr_th <= 0 and
\* of 100 times recovery / pr_th otherwise; with pt_i = 0 and pr_th > 0 it is
\* the quotient 0 / pr_th of the guarded recovery.
C4_ShockEfficiency ==
    Returns =>
        /\ metrics.Shock_Eff =
               IF Le(data.pr_th, Zero) THEN Zero
               ELSE Mul(Div(metrics.Recovery, data.pr_th), Hundred)
        /\ (IsZero(data.pt_i) /\ Gt(data.pr_th, Zero)) =>
               /\ metrics.Shock_Eff = Mul(Div(Zero, data.pr_th), Hundred)
               /\ IsZero(metrics.Shock_Eff)

\* C4 witness: pt_i = 0 with pr_th > 0, reported as a shock efficiency of 0
C4_Witness ==
    /\ cpc = "computed"
    /\ Returns
    /\ IsZero(data.pt_i)
    /\ Gt(data.pr_th, Zero)
    /\ ~IsZero(data.pt_e)
    /\ IsZero(metrics.Shock_Eff)

\* C5: a returned record reports the recovery pt_e / pt_i when pt_i != 0 and
\* 0 when pt_i = 0, as a raw ratio: neither multiplied by 100 nor clamped.
C5_Recovery ==
    Returns =>
        metrics.Recovery =
            IF IsZero(data.pt_i) THEN Zero ELSE Div(data.pt_e, data.pt_i)

\* C5 witness: a negative recovery is reported as it is
C5_Witness ==
    /\ cpc = "computed"
    /\ Returns
    /\ Sign(data.pt_i) < 0
    /\ Sign(metrics.Recovery) < 0
    /\ metrics.Recovery = Div(data.pt_e, data.pt_i)

\* C6: a returned record reports the distortion (pt_max - pt_min) / pt_avg
\* when pt_avg > 0 and 0 when pt_avg <= 0, whatever the other fields hold.
C6_Distortion ==
    Returns =>
        metrics.Distortion =
            IF Le(data.pt_avg, Zero) THEN Zero
            ELSE Div(Sub(data.pt_max, data.pt_min), data.pt_avg)

\* C6 witness: a negative pt_avg, reported as a distortion of 0, in a record
\* whose other guards are not triggered
C6_Witness ==
    /\ cpc = "computed"
    /\ Returns
    /\ Sign(data.pt_avg) < 0
    /\ IsZero(metrics.Distortion)
    /\ ~IsZero(metrics.KE_Eff)
    /\ ~IsZero(metrics.Shock_Eff)

\* the adiabatic formula, from the ke_eff that the kinetic energy step left
ExpectedAdiabatic ==
    Mul(Sub(One,
            Mul(Div(Mul(Sub(data.gamma, One), Pow(data.mach, Two).v), Two),
                Div(Sub(One, KeEff(data).v),
                    Sub(Div(data.t_e, data.t_i), One)))),
        Hundred)

\* C7: a returned record reports an adiabatic efficiency of 0 when t_i = 0
\* or t_e = t_i, and otherwise 100 * (1 - ((gamma - 1) * mach^2 / 2) *
\* ((1 - ke_eff) / (t_e / t_i - 1))) with the ke_eff the kinetic energy step
\* left, 0 included: an unmet kinetic energy guard does not skip the formula.
C7_Adiabatic ==
    Returns =>
        metrics.Adiabatic_Eff =
            IF IsZero(data.t_i) \/ Eq(data.t_e, data.t_i) THEN Zero
            ELSE ExpectedAdiabatic

\* C7 witness: the kinetic energy guard is not met and the adiabatic
\* efficiency reported is the value of the formula as the floats give it:
\* 100 * (1 - 49 * (1 / 49)), which is 100 * 2^-53 and not 0
C7_Witness ==
    /\ cpc = "computed"
    /\ Returns
    /\ ~KeGuard(data)
    /\ ~IsZero(data.t_i)
    /\ ~Eq(data.t_e, data.t_i)
    /\ ~IsZero(data.mach)
    /\ metrics.Adiabatic_Eff = Mul(TwoTo(-53), Hundred)

\* the conditions under which the kinetic energy formula is skipped
KeSkipped ==
    \/ Le(data.mach, Zero)
    \/ Le(data.gamma, One)
    \/ Le(data.pt_e, Zero)
    \/ Le(Div(data.pt_i, data.pt_e), Zero)

\* the kinetic energy formula, times 100
ExpectedKe ==
    Mul(Sub(One,
            Mul(Mul(Div(One, Sub(data.gamma, One)),
                    Div(One, Pow(data.mach, Two).v)),
                Sub(Mul(IF IsZero(data.tt_i) THEN One
                        ELSE Div(data.tt_e, data.tt_i),
                        Pow(Div(data.pt_i, data.pt_e),
                            Div(Sub(data.gamma, One), data.gamma)).v),
                    One))),
        Hundred)

\* C8: a returned record reports a kinetic energy efficiency of exactly 0
\* when mach <= 0, gamma <= 1, pt_e <= 0 or pt_i / pt_e <= 0, and the value
\* of the formula when none of the four holds.
C8_KineticEnergy ==
    Returns =>
        IF KeSkipped THEN IsZero(metrics.KE_Eff) ELSE metrics.KE_Eff = ExpectedKe

\* C8 witness: mach, gamma and pt_e pass the guard, pt_i / pt_e <= 0 and the
\* efficiency reported is 0
C8_Witness ==
    /\ cpc = "computed"
    /\ Returns
    /\ KeGuard(data)
    /\ Sign(data.pt_i) < 0
    /\ IsZero(metrics.KE_Eff)

\* the n * 2^e keeps all its bits as a float
ExactBits(n, e) ==
    DroppedBits(n, e) <= 0 \/ BLow(n, DroppedBits(n, e)) = <<>>

\* the float x * y is the product of x and y: nothing was rounded away and
\* the product is in the range of a float
ExactProduct(x, y) ==
    /\ IsFinite(x) /\ IsFinite(y) /\ IsFinite(Mul(x, y))
    /\ IsZero(x) \/ IsZero(y) \/ ExactBits(BMul(x.m, y.m), x.e + y.e)

\* both pressures of the measurement are multiplied by the factor exactly
ExactlyScaled ==
    ExactProduct(data.pt_i, factor) /\ ExactProduct(data.pt_e, factor)

\* C9 (as stated): scaling pt_i and pt_e by any positive factor leaves the
\* recovery unchanged, the guarded case pt_i = 0 included.
C9_ScaleInvariant ==
    (cpc = "scaled" /\ Returns /\ scaled.exc = "none") =>
        scaled.Recovery = metrics.Recovery

\* C9 (amended): scaling pt_i and pt_e by any positive factor leaves the
\* recovery unchanged when both products are exact: neither rounded nor
\* beyond the range of the floats; the guarded case pt_i = 0 is included.
C9_ScaleInvariantExact ==
    (cpc = "scaled" /\ Returns /\ scaled.exc = "none" /\ ExactlyScaled) =>
        scaled.Recovery = metrics.Recovery

\* C9 witness: pressures scaled exactly by 3, which is not a power of two,
\* with a recovery that is neither 0 nor 1
C9_Witness ==
    /\ cpc = "scaled"
    /\ Returns
    /\ scaled.exc = "none"
    /\ ExactlyScaled
    /\ factor = Flt(3)
    /\ ~IsZero(metrics.Recovery)
    /\ metrics.Recovery # One
    /\ scaled.Recovery = metrics.Recovery

\* the names of the default records, by position
InletNames ==
    << "Inlet 1", "Inlet 2", "Inlet 3", "Inlet 4", "Inlet 5",
       "Inlet 6", "Inlet 7", "Inlet 8", "Inlet 9", "Inlet 10" >>

\* the default record at position i of the list (from 1)
ExpectedDefault(i) ==
    [name |-> InletNames[i],
     gamma |-> Dec(7, 5), mach |-> Two, pr_th |-> Dec(49, 50),
     pt_i |-> Flt(101325), pt_e |-> Flt(95000),
     pt_max |-> Flt(98000), pt_min |-> Flt(92000), pt_avg |-> Flt(95000),
     tt_i |-> Flt(300), tt_e |-> Flt(350),
     t_i |-> Flt(280), t_e |-> Flt(330)]

\* what the resize step of a script run does to the session's list
ResizeStepKeepsPrefix ==
    (pc = "resize" /\ pc' = "inputs") =>
        /\ Len(inlets') = num_inlets
        /\ \A i \in 1 .. Min(Len(inlets), num_inlets) : inlets'[i] = inlets[i]
        /\ \A i \in (Len(inlets) + 1) .. num_inlets : inlets'[i] = ExpectedDefault(i)

\* C10: after the resize step of every script run the list has the selected
\* number of records; the records below min(previous length, selected count)
\* are the previous ones, unchanged and in order, and every appended position
\* i (from 0) holds the default record named "Inlet i+1": a grow does not
\* restore what a trim removed.
C10_Resize == [][ResizeStepKeepsPrefix]_vars

\* C10 witness: after widget edits, a resize step has grown the list and
\* every record is the default one again: the edited records were trimmed
\* and the grow appended defaults in their place
C10_Witness ==
    /\ pc = "inputs"
    /\ edits > 0
    /\ current_count < Len(inlets)
    /\ Len(inlets) = num_inlets
    /\ \A i \in 1 .. Len(inlets) : inlets[i] = ExpectedDefault(i)

====
